---------------------------- MODULE Spec2Model ----------------------------
(***************************************************************************)
(* A model of the task tracker of src/main.go: a command-line program that *)
(* keeps a list of tasks in the file tasks.json.  Every invocation parses  *)
(* os.Args, loads the whole file, changes the collection in memory and     *)
(* writes the whole file back.                                             *)
(*                                                                         *)
(* Two specifications share the definitions of the program:                *)
(*   Spec      invocations run one after the other; one action is one      *)
(*             whole run of main() for one command;                        *)
(*   ConcSpec  two mutating invocations run at the same time on one file;  *)
(*             one action is one access of a process to the file           *)
(*             (the read of loadTasks, the open-and-truncate and the write *)
(*             of os.WriteFile) or its exit.                               *)
(*                                                                         *)
(* The file is readable and writable throughout: the I/O failures of       *)
(* os.ReadFile and os.WriteFile (permissions, a full disk) are not part of *)
(* the model.  Descriptions are valid UTF-8 text, which the JSON string    *)
(* encoding stores and returns unchanged.                                  *)
(***************************************************************************)
EXTENDS Integers, Sequences, FiniteSets, TLC

VARIABLES
    file,   \* tasks.json: [exists, data]; data is the content, cell by cell
    clock,  \* the last instant time.Now() returned
    last,   \* Spec: the last invocation: [ran, argv, op, err, exit, out]
    issued, \* Spec: the ids the successful add commands printed, in order
    proc,   \* ConcSpec: per process [pc, argv, loaded, res, data]
    trace   \* ConcSpec: the file accesses so far, <<process, access>>

vars == <<file, clock, last, issued, proc, trace>>

---------------------------------------------------------------------------
(* Bounds and input domains *)

\* time.Now() is called at most MaxTime times in a history of Spec.
MaxTime == 3

\* The descriptions the commands are given.
Descs == {"a", "b"}

\* The words given where a task id is expected; "x" is not a number.
IdToks == {"1", "2", "x"}

\* The words given where a status is expected.
StatusToks == {"todo", "doing", "done", "DONE", "later"}

\* A surplus trailing argument.
Surplus == "zz"

---------------------------------------------------------------------------
(* The constants and the Task type, main.go:14-27 *)

statusTodo == "todo"

statusDone == "done"

statusDoing == "doing"

Statuses == {statusTodo, statusDoing, statusDone}

Task(id, description, status, createdAt, updatedAt) ==
    [ID |-> id, Description |-> description, Status |-> status,
     CreatedAt |-> createdAt, UpdatedAt |-> updatedAt]

---------------------------------------------------------------------------
(* The file and its encoding.  The content of tasks.json is a sequence of  *)
(* cells: the array's brackets and one cell per task record.  A cell       *)
(* stands for a run of bytes; a write covers as many cells of the old      *)
(* content as it is long.                                                  *)

OpenCell == [tok |-> "["]

CloseCell == [tok |-> "]"]

NulCell == [tok |-> "NUL"]

TaskCell(t) == [tok |-> "task", val |-> t]

NoFile == [exists |-> FALSE, data |-> <<>>]

\* json.MarshalIndent(tasks, "", "  ")
Marshal(tasks) ==
    <<OpenCell>> \o [i \in 1..Len(tasks) |-> TaskCell(tasks[i])] \o <<CloseCell>>

\* json.Unmarshal(data, &tasks): an array of task records, or an error.
Unmarshal(data) ==
    LET n == Len(data)
        wellFormed ==
            /\ n >= 2
            /\ data[1] = OpenCell
            /\ data[n] = CloseCell
            /\ \A i \in 2..(n - 1) : data[i].tok = "task"
    IN  IF wellFormed
        THEN [err |-> FALSE, tasks |-> [i \in 1..(n - 2) |-> data[i + 1].val]]
        ELSE [err |-> TRUE, tasks |-> <<>>]

\* loadTasks: a missing file, an empty file and a file that starts with a
\* NUL byte are the empty collection.
loadTasks(f) ==
    IF ~f.exists
    THEN [err |-> FALSE, tasks |-> <<>>]
    ELSE IF Len(f.data) = 0 \/ (Len(f.data) > 0 /\ f.data[1] = NulCell)
         THEN [err |-> FALSE, tasks |-> <<>>]
         ELSE Unmarshal(f.data)

\* A variant that opens without O_TRUNC.
OpenTrunc_Keep(f) == [exists |-> TRUE, data |-> f.data]

\* os.WriteFile, first system call: open with O_CREATE|O_TRUNC.
OpenTrunc(f) == [exists |-> TRUE, data |-> <<>>]

\* os.WriteFile, second system call: write data at offset 0 of the open file.
WriteAt(f, data) ==
    [exists |-> TRUE,
     data |-> data \o SubSeq(f.data, Len(data) + 1, Len(f.data))]

\* saveTasks run without another process in between.
saveTasks(f, tasks) == WriteAt(OpenTrunc(f), Marshal(tasks))

---------------------------------------------------------------------------
(* The operations on the loaded collection *)

RECURSIVE MaxIDFrom(_, _, _)
\* The loop of getNextID from index i on, maxID being the maximum so far.
MaxIDFrom(tasks, i, maxID) ==
    IF i > Len(tasks)
    THEN maxID
    ELSE MaxIDFrom(tasks, i + 1, IF tasks[i].ID > maxID THEN tasks[i].ID ELSE maxID)

\* A variant that counts the tasks instead of taking the largest id.
getNextID_Count(tasks) == Len(tasks) + 1

getNextID(tasks) == MaxIDFrom(tasks, 1, 0) + 1

RECURSIVE FindFrom(_, _, _)
\* The scan "for i, task := range tasks { if task.ID == id": the first index
\* whose task has the id, 0 when there is none.
FindFrom(tasks, i, id) ==
    IF i > Len(tasks)
    THEN 0
    ELSE IF tasks[i].ID = id THEN i ELSE FindFrom(tasks, i + 1, id)

FindTask(tasks, id) == FindFrom(tasks, 1, id)

\* A variant that puts the new task first.
AppendNew_Prepend(tasks, description, now) ==
    <<Task(MaxIDFrom(tasks, 1, 0) + 1, description, statusTodo, now, now)>> \o tasks

\* addTask, lines 184-192
AppendNew(tasks, description, now) ==
    Append(tasks, Task(getNextID(tasks), description, statusTodo, now, now))

\* A variant that also overwrites the creation time.
SetDescription_TouchesCreated(tasks, i, description, now) ==
    [tasks EXCEPT ![i].Description = description, ![i].UpdatedAt = now,
                  ![i].CreatedAt = now]

\* updateTask, lines 225-226
SetDescription(tasks, i, description, now) ==
    [tasks EXCEPT ![i].Description = description, ![i].UpdatedAt = now]

\* A variant that removes the element after the one found.
RemoveAt_OffByOne(tasks, i) ==
    SubSeq(tasks, 1, i) \o SubSeq(tasks, i + 2, Len(tasks))

\* deleteTask, line 244: append(tasks[:i], tasks[i+1:]...)
RemoveAt(tasks, i) ==
    SubSeq(tasks, 1, i - 1) \o SubSeq(tasks, i + 1, Len(tasks))

\* A variant that leaves updatedAt as it was.
SetStatus_NoRefresh(tasks, i, newStatus, now) ==
    [tasks EXCEPT ![i].Status = newStatus]

\* updateTaskStatus, lines 265-266
SetStatus(tasks, i, newStatus, now) ==
    [tasks EXCEPT ![i].Status = newStatus, ![i].UpdatedAt = now]

\* A variant without the case of the empty filter.
FilterTasks_NoEmptyFilter(tasks, filter) ==
    SelectSeq(tasks, LAMBDA t : t.Status = filter)

\* listTasks, lines 281-286
FilterTasks(tasks, filter) ==
    SelectSeq(tasks, LAMBDA t : filter = "" \/ t.Status = filter)

---------------------------------------------------------------------------
(* The argument parsing of main *)

\* strconv.Atoi on the id words of the model.
Atoi(s) ==
    CASE s = "1" -> [err |-> FALSE, n |-> 1]
      [] s = "2" -> [err |-> FALSE, n |-> 2]
      [] s = "3" -> [err |-> FALSE, n |-> 3]
      [] OTHER   -> [err |-> TRUE, n |-> 0]

\* strings.ToLower on the status words of the model.
ToLower(s) == IF s = "DONE" THEN "done" ELSE s

---------------------------------------------------------------------------
(* What one invocation does, as a function of its arguments, of what       *)
(* loadTasks returned (ld) and of the instant time.Now() returns (now):    *)
(*   op    the repository operation main called, "none" when it exited     *)
(*         before calling one;                                             *)
(*   err   the error the operation returned, "" for nil;                   *)
(*   exit  the exit status;                                                *)
(*   out   what was printed: the message, the id in it, the tasks listed;  *)
(*   save  whether saveTasks is called, and tasks, the slice it is given;  *)
(*   tick  whether time.Now() is called.                                   *)

Out(msg, id, listed) == [msg |-> msg, id |-> id, listed |-> listed]

\* os.Exit(1) in main, before any operation is called.
Reject(msg) ==
    [op |-> "none", err |-> "", exit |-> 1, out |-> Out(msg, 0, <<>>),
     save |-> FALSE, tasks |-> <<>>, tick |-> FALSE]

\* A variant in which main does not exit 1 on the error.
Failed_ExitZero(op, err) ==
    [op |-> op, err |-> err, exit |-> 0, out |-> Out("Operation Failed", 0, <<>>),
     save |-> FALSE, tasks |-> <<>>, tick |-> FALSE]

\* An operation that returns err and writes nothing; main prints
\* "Operation Failed" and exits 1 (lines 121-124).
Failed(op, err) ==
    [op |-> op, err |-> err, exit |-> 1, out |-> Out("Operation Failed", 0, <<>>),
     save |-> FALSE, tasks |-> <<>>, tick |-> FALSE]

\* An operation that hands tasks to saveTasks and returns nil.
Saved(op, tasks, out) ==
    [op |-> op, err |-> "", exit |-> 0, out |-> out,
     save |-> TRUE, tasks |-> tasks, tick |-> op # "delete"]

addTask(description, ld, now) ==
    IF ld.err
    THEN [op |-> "add", err |-> "", exit |-> 1,
          out |-> Out("Error loading tasks", 0, <<>>),
          save |-> FALSE, tasks |-> <<>>, tick |-> FALSE]
    ELSE Saved("add", AppendNew(ld.tasks, description, now),
               Out("Task added successfully", getNextID(ld.tasks), <<>>))

updateTask(id, description, ld, now) ==
    IF ld.err
    THEN Failed("update", "error unmarshalling JSON")
    ELSE LET i == FindTask(ld.tasks, id)
         IN  IF i # 0
             THEN Saved("update", SetDescription(ld.tasks, i, description, now),
                        Out("", 0, <<>>))
             ELSE Failed("update", "not found")

deleteTask(id, ld) ==
    IF ld.err
    THEN Failed("delete", "error unmarshalling JSON")
    ELSE LET i == FindTask(ld.tasks, id)
         IN  IF i # 0
             THEN Saved("delete", RemoveAt(ld.tasks, i),
                        Out("deleted successfully", id, <<>>))
             ELSE Failed("delete", "not found")

\* main prints "marked as" when updateTaskStatus returns nil (lines 97-99).
updateTaskStatus(id, newStatus, ld, now) ==
    IF ld.err
    THEN Failed("mark", "error unmarshalling JSON")
    ELSE LET i == FindTask(ld.tasks, id)
         IN  IF i # 0
             THEN Saved("mark", SetStatus(ld.tasks, i, newStatus, now),
                        Out("marked as", id, <<>>))
             ELSE Failed("mark", "not found")

listTasks(filter, ld) ==
    IF ld.err
    THEN Failed("list", "error unmarshalling JSON")
    ELSE LET filteredTasks == FilterTasks(ld.tasks, filter)
         IN  [op |-> "list", err |-> "", exit |-> 0,
              out |-> IF Len(filteredTasks) = 0
                      THEN Out("No tasks found", 0, <<>>)
                      ELSE Out("--- Task List ---", 0, filteredTasks),
              save |-> FALSE, tasks |-> <<>>, tick |-> FALSE]

\* main, case "add" (argv is os.Args[1:], so len(os.Args) = Len(argv) + 1)
mainAdd(argv, ld, now) ==
    IF Len(argv) + 1 < 3
    THEN Reject("Usage: task add")
    ELSE addTask(argv[2], ld, now)

\* main, case "update"
mainUpdate(argv, ld, now) ==
    IF Len(argv) + 1 < 4
    THEN Reject("Usage: task update")
    ELSE IF Atoi(argv[2]).err
         THEN Reject("Invalid task ID")
         ELSE updateTask(Atoi(argv[2]).n, argv[3], ld, now)

\* main, case "delete"
mainDelete(argv, ld) ==
    IF Len(argv) + 1 < 3
    THEN Reject("Usage: task delete")
    ELSE IF Atoi(argv[2]).err
         THEN Reject("Invalid task ID")
         ELSE deleteTask(Atoi(argv[2]).n, ld)

\* main, case "mark"
mainMark(argv, ld, now) ==
    IF Len(argv) + 1 < 4
    THEN Reject("Usage: task mark")
    ELSE LET status == ToLower(argv[2])
         IN  IF status # statusDone /\ status # statusTodo /\ status # statusDoing
             THEN Reject("Invalid mark status")
             ELSE IF Atoi(argv[3]).err
                  THEN Reject("Invalid task ID")
                  ELSE updateTaskStatus(Atoi(argv[3]).n, status, ld, now)

\* main, case "list": the filter is read and validated only when there are
\* exactly three os.Args.
mainList(argv, ld) ==
    IF Len(argv) + 1 = 3
    THEN LET filter == argv[2]
         IN  IF filter # statusDone /\ filter # statusTodo /\ filter # statusDoing
             THEN Reject("Invalid list status filter")
             ELSE listTasks(filter, ld)
    ELSE listTasks("", ld)

---------------------------------------------------------------------------
(* Spec: invocations one after the other *)

Commands == {"add", "update", "delete", "mark", "list"}

\* The argument vectors (os.Args[1:]) the invocations are given: too few,
\* the right number and, with Surplus appended, too many arguments.
ExactArgv ==
    {<<"add", d>> : d \in Descs}
        \cup {<<"update", i, d>> : i \in IdToks, d \in Descs}
        \cup {<<"delete", i>> : i \in IdToks}
        \cup {<<"mark", s, i>> : s \in StatusToks, i \in IdToks}
        \cup {<<"list">>}
        \cup {<<"list", s>> : s \in StatusToks}

ShortArgv ==
    {<<>>, <<"bogus">>, <<"add">>, <<"update">>, <<"delete">>, <<"mark">>}
        \cup {<<"update", i>> : i \in IdToks}
        \cup {<<"mark", s>> : s \in StatusToks}

LongArgv == {Append(a, Surplus) : a \in ExactArgv \ {<<"list">>}}

Argv == ShortArgv \cup ExactArgv \cup LongArgv

ArgvOf(command) == {a \in Argv : a # <<>> /\ a[1] = command}

Idle ==
    [pc |-> "idle", argv |-> <<>>, loaded |-> <<>>, res |-> Reject(""),
     data |-> <<>>]

Procs == {1, 2}

NoRun ==
    [ran |-> FALSE, argv |-> <<>>, op |-> "none", err |-> "", exit |-> 0,
     out |-> Out("", 0, <<>>)]

\* The tasks file is absent, empty, or holds a single NUL byte.
Init ==
    /\ file \in {NoFile, [exists |-> TRUE, data |-> <<>>],
                 [exists |-> TRUE, data |-> <<NulCell>>]}
    /\ clock = 0
    /\ last = NoRun
    /\ issued = <<>>
    /\ proc = [p \in Procs |-> Idle]
    /\ trace = <<>>

\* One whole invocation with result r: time.Now() if it is called, saveTasks
\* if it is called, the output and the exit status.
Invoke(argv, r) ==
    /\ r.tick => clock < MaxTime
    /\ clock' = IF r.tick THEN clock + 1 ELSE clock
    /\ file' = IF r.save THEN saveTasks(file, r.tasks) ELSE file
    /\ last' = [ran |-> TRUE, argv |-> argv, op |-> r.op, err |-> r.err,
                exit |-> r.exit, out |-> r.out]
    /\ issued' = IF r.op = "add" /\ r.exit = 0
                 THEN Append(issued, r.out.id)
                 ELSE issued
    /\ UNCHANGED <<proc, trace>>

\* len(os.Args) < 2: printUsage, exit 1 (lines 31-34)
NoCommand == Invoke(<<>>, Reject("Usage"))

Add ==
    \E argv \in ArgvOf("add") :
        Invoke(argv, mainAdd(argv, loadTasks(file), clock + 1))

Update ==
    \E argv \in ArgvOf("update") :
        Invoke(argv, mainUpdate(argv, loadTasks(file), clock + 1))

Delete ==
    \E argv \in ArgvOf("delete") :
        Invoke(argv, mainDelete(argv, loadTasks(file)))

Mark ==
    \E argv \in ArgvOf("mark") :
        Invoke(argv, mainMark(argv, loadTasks(file), clock + 1))

List ==
    \E argv \in ArgvOf("list") :
        Invoke(argv, mainList(argv, loadTasks(file)))

\* main, default case: an unknown command (lines 114-117)
Unknown ==
    \E argv \in Argv :
        /\ argv # <<>>
        /\ argv[1] \notin Commands
        /\ Invoke(argv, Reject("Unknown command"))

Next == NoCommand \/ Add \/ Update \/ Delete \/ Mark \/ List \/ Unknown

Spec == Init /\ [][Next]_vars

---------------------------------------------------------------------------
(* ConcSpec: two mutating invocations at the same time.  Nothing in        *)
(* main.go locks tasks.json, so the file accesses of the two processes     *)
(* interleave freely.  os.WriteFile is two system calls, the open that     *)
(* truncates and the write; loadTasks reads the file in one.               *)

\* The collections on disk when the two invocations start: none, and the
\* ones left by "add a" and by "add a" then "add b".
SeedTasks ==
    {<<>>, AppendNew(<<>>, "a", 1), AppendNew(AppendNew(<<>>, "a", 1), "b", 2)}

\* The mutating commands the two invocations run.
ConcArgv ==
    {<<"add", d>> : d \in Descs}
        \cup {<<"update", i, d>> : i \in {"1", "2"}, d \in Descs}
        \cup {<<"delete", i>> : i \in {"1", "2"}}
        \cup {<<"mark", s, i>> : s \in {"doing", "done"}, i \in {"1", "2"}}

ConcInit ==
    /\ file \in {NoFile} \cup {saveTasks(NoFile, t) : t \in SeedTasks \ {<<>>}}
    /\ clock = 2
    /\ last = NoRun
    /\ issued = <<>>
    /\ proc = [p \in Procs |-> Idle]
    /\ trace = <<>>

\* main of process p, given argv, whatever the file holds now.
mainOf(argv, f, now) ==
    CASE argv[1] = "add"    -> mainAdd(argv, loadTasks(f), now)
      [] argv[1] = "update" -> mainUpdate(argv, loadTasks(f), now)
      [] argv[1] = "delete" -> mainDelete(argv, loadTasks(f))
      [] argv[1] = "mark"   -> mainMark(argv, loadTasks(f), now)

\* The process starts.
Start(p) ==
    /\ proc[p].pc = "idle"
    /\ \E argv \in ConcArgv :
           proc' = [proc EXCEPT ![p].pc = "load", ![p].argv = argv]
    /\ UNCHANGED <<file, clock, last, issued, trace>>

\* loadTasks reads the file; the operation then works on its own slice up
\* to the call of saveTasks, or returns its error.
Load(p) ==
    /\ proc[p].pc = "load"
    /\ LET r == mainOf(proc[p].argv, file, clock + 1)
       IN  /\ proc' = [proc EXCEPT ![p].pc = IF r.save THEN "open" ELSE "done",
                                   ![p].loaded = loadTasks(file).tasks,
                                   ![p].res = r,
                                   ![p].data = Marshal(r.tasks)]
           /\ clock' = IF r.tick THEN clock + 1 ELSE clock
    /\ trace' = Append(trace, <<p, "load">>)
    /\ UNCHANGED <<file, last, issued>>

\* os.WriteFile opens tasks.json, which truncates it.
Open(p) ==
    /\ proc[p].pc = "open"
    /\ file' = OpenTrunc(file)
    /\ proc' = [proc EXCEPT ![p].pc = "write"]
    /\ trace' = Append(trace, <<p, "open">>)
    /\ UNCHANGED <<clock, last, issued>>

\* os.WriteFile writes the encoded collection at the start of the file;
\* the operation returns nil and the process exits 0.
Write(p) ==
    /\ proc[p].pc = "write"
    /\ file' = WriteAt(file, proc[p].data)
    /\ proc' = [proc EXCEPT ![p].pc = "done"]
    /\ trace' = Append(trace, <<p, "write">>)
    /\ UNCHANGED <<clock, last, issued>>

ConcNext == \E p \in Procs : Start(p) \/ Load(p) \/ Open(p) \/ Write(p)

ConcSpec == ConcInit /\ [][ConcNext]_vars

---------------------------------------------------------------------------
(* Properties.  Under Spec every step is one invocation: last' holds its   *)
(* arguments, exit status and output, file the tasks file before it and    *)
(* file' the tasks file after it.                                          *)

\* The persisted collection.
Stored == loadTasks(file).tasks

StoredAfter == loadTasks(file').tasks

IDs(tasks) == {tasks[k].ID : k \in 1..Len(tasks)}

Max(S) == CHOOSE m \in S : \A n \in S : n <= m

\* The step runs command with at least n arguments after the command word.
Runs(command, n) ==
    /\ last'.ran
    /\ Len(last'.argv) >= n + 1
    /\ last'.argv[1] = command

\* C1: the ids printed by the successful add commands of a history are
\* strictly increasing, each one more than the largest id assigned before
\* it (1 for the first), so no id is ever assigned twice.
C1_IdsNeverReassigned ==
    \A i \in 1..Len(issued) :
        /\ issued[i] = 1 + Max({0} \cup {issued[j] : j \in 1..(i - 1)})
        /\ \A j \in 1..(i - 1) : issued[j] < issued[i]

\* C2: the persisted collection decodes, no two of its tasks have the same
\* id and every id is at least 1.
C2_IdsUniquePositive ==
    /\ ~loadTasks(file).err
    /\ \A i \in 1..Len(Stored) : Stored[i].ID \in Nat /\ Stored[i].ID >= 1
    /\ \A i, j \in 1..Len(Stored) : i # j => Stored[i].ID # Stored[j].ID

\* Two tasks are stored after an add that followed a delete.
C2_Witness ==
    /\ Len(Stored) = 2
    /\ Len(issued) = 3
    /\ last.op = "add"
    /\ last.exit = 0

C3_Step ==
    LET a == last'.argv
        id == Atoi(a[2]).n
    IN  (/\ Runs("update", 2)
         /\ ~Atoi(a[2]).err
         /\ id \in IDs(Stored))
        => /\ last'.exit = 0
           /\ Len(StoredAfter) = Len(Stored)
           /\ \A k \in 1..Len(Stored) :
                  IF Stored[k].ID = id
                  THEN StoredAfter[k] =
                           [Stored[k] EXCEPT !.Description = a[3],
                                             !.UpdatedAt = clock']
                  ELSE StoredAfter[k] = Stored[k]

\* C3: update of a present id sets that task's description to the given one
\* and its updatedAt to the current time, and leaves its id, status and
\* createdAt, every other task, the number of tasks and their order as they
\* were.
C3_UpdateChangesOnlyDescription == [][C3_Step]_vars

\* The first of two tasks was updated to "b" after the second was added.
C3_Witness ==
    /\ last.ran /\ last.argv = <<"update", "1", "b">> /\ last.exit = 0
    /\ Len(Stored) = 2
    /\ Stored[1].Description = "b"
    /\ Stored[1].CreatedAt # Stored[1].UpdatedAt
    /\ Stored[2].Description = "a"

C4_Step ==
    LET a == last'.argv
        id == Atoi(a[2]).n
    IN  (/\ Runs("delete", 1)
         /\ ~Atoi(a[2]).err
         /\ id \in IDs(Stored))
        => /\ last'.exit = 0
           /\ Len(StoredAfter) = Len(Stored) - 1
           /\ id \notin IDs(StoredAfter)
           /\ \E k \in 1..Len(Stored) :
                  /\ Stored[k].ID = id
                  /\ \A j \in 1..Len(StoredAfter) :
                         StoredAfter[j] = IF j < k THEN Stored[j] ELSE Stored[j + 1]

\* C4: delete of a present id removes the task with that id and no other:
\* the collection is one shorter, and the remaining tasks keep their fields
\* and their order.
C4_DeleteRemovesExactlyOne == [][C4_Step]_vars

\* The middle one of three tasks was deleted.
C4_Witness ==
    /\ last.ran /\ last.argv = <<"delete", "2">> /\ last.exit = 0
    /\ Len(Stored) = 2
    /\ Stored[1].ID = 1
    /\ Stored[2].ID = 3

C5_Step ==
    LET a == last'.argv
        idAt == IF a[1] = "mark" THEN 3 ELSE 2
    IN  (/\ \/ Runs("update", 2)
            \/ Runs("delete", 1)
            \/ Runs("mark", 2) /\ ToLower(a[2]) \in Statuses
         /\ ~Atoi(a[idAt]).err
         /\ Atoi(a[idAt]).n \notin IDs(Stored))
        => /\ last'.err = "not found"
           /\ last'.exit # 0
           /\ file' = file

\* C5: update, delete and mark of an id that is not in the collection fail
\* with the not-found error and a non-zero exit status, and the tasks file
\* is left exactly as it was (nothing is saved).
C5_MissingIdFailsWithoutSave == [][C5_Step]_vars

\* An update of id 2 failed while one task, of id 1, is stored.
C5_Witness ==
    /\ last.ran /\ last.argv = <<"update", "2", "b">>
    /\ last.err = "not found"
    /\ Len(Stored) = 1
    /\ Stored[1].ID = 1

C6_Step ==
    LET a == last'.argv
        id == Atoi(a[3]).n
    IN  (/\ Runs("mark", 2)
         /\ a[2] \in Statuses
         /\ ~Atoi(a[3]).err
         /\ id \in IDs(Stored))
        => /\ last'.exit = 0
           /\ Len(StoredAfter) = Len(Stored)
           /\ \A k \in 1..Len(Stored) :
                  IF Stored[k].ID = id
                  THEN StoredAfter[k] =
                           [Stored[k] EXCEPT !.Status = a[2],
                                             !.UpdatedAt = clock']
                  ELSE StoredAfter[k] = Stored[k]

C6_StatusesEnumerated ==
    \A k \in 1..Len(Stored) : Stored[k].Status \in Statuses

\* C6: mark of a present id with one of the three statuses succeeds whatever
\* the task's status is, sets its status to the given one and its updatedAt
\* to the current time and changes nothing else; every stored status is one
\* of the three at all times.
C6_MarkSetsAnyStatus == [][C6_Step]_vars /\ []C6_StatusesEnumerated

\* Task 1 was marked todo again after an earlier change to it.
C6_Witness ==
    /\ last.ran /\ last.argv = <<"mark", "todo", "1">> /\ last.exit = 0
    /\ Len(Stored) = 1
    /\ Stored[1].Status = "todo"
    /\ Stored[1].CreatedAt = 1
    /\ Stored[1].UpdatedAt = 3

\* The indices of the tasks a filter selects, and the n-th of them.
Matching(tasks, filter) ==
    {k \in 1..Len(tasks) : filter = "" \/ tasks[k].Status = filter}

NthOf(S, n) == CHOOSE k \in S : Cardinality({m \in S : m < k}) = n - 1

C7_Step ==
    LET a == last'.argv
        filter == IF Len(a) = 2 THEN a[2] ELSE ""
        M == Matching(Stored, filter)
    IN  (/\ Runs("list", 0)
         /\ Len(a) <= 2
         /\ filter \in Statuses \cup {""})
        => /\ last'.exit = 0
           /\ last'.err = ""
           /\ Len(last'.out.listed) = Cardinality(M)
           /\ \A n \in 1..Cardinality(M) :
                  last'.out.listed[n] = Stored[NthOf(M, n)]
           /\ file' = file

\* C7: list with one of the three statuses prints exactly the tasks of that
\* status, and without a filter every task; each once, in stored order; an
\* empty result is a success; the tasks file is not changed.
C7_ListFiltersInOrder == [][C7_Step]_vars

\* "list done" printed the second of two stored tasks and not the first.
C7_Witness ==
    /\ last.ran /\ last.argv = <<"list", "done">> /\ last.exit = 0
    /\ Len(Stored) = 2
    /\ Len(last.out.listed) = 1
    /\ last.out.listed[1].ID = 2

\* The arguments the claim calls invalid.
InvalidArgs(a) ==
    \/ a = <<>>
    \/ a # <<>> /\ a[1] \notin Commands
    \/ a # <<>> /\ a[1] = "add" /\ Len(a) # 2
    \/ a # <<>> /\ a[1] = "update" /\ (Len(a) # 3 \/ Atoi(a[2]).err)
    \/ a # <<>> /\ a[1] = "delete" /\ (Len(a) # 2 \/ Atoi(a[2]).err)
    \/ a # <<>> /\ a[1] = "mark"
           /\ (Len(a) # 3 \/ a[2] \notin Statuses \/ Atoi(a[3]).err)
    \/ a # <<>> /\ a[1] = "list"
           /\ (Len(a) > 2 \/ (Len(a) = 2 /\ a[2] \notin Statuses))

\* C8: an invocation with invalid arguments exits with a non-zero status
\* and calls no repository operation.
C8_InvalidArgsRejected ==
    (last.ran /\ InvalidArgs(last.argv)) => (last.exit # 0 /\ last.op = "none")

C9_Step ==
    LET a == last'.argv
        id == 1 + Max({0} \cup IDs(Stored))
    IN  (/\ Runs("add", 1)
         /\ ~loadTasks(file).err)
        => /\ last'.exit = 0
           /\ last'.out.id = id
           /\ StoredAfter =
                  Append(Stored, Task(id, a[2], "todo", clock', clock'))

\* C9: add on an absent, empty or well-formed tasks file succeeds and
\* appends one task at the end: the given description, status todo,
\* createdAt equal to updatedAt, id one more than the largest stored id (1
\* when there is none); the tasks stored before are unchanged, in order.
C9_AddAppendsOneTask == [][C9_Step]_vars

\* Task 3 was added after tasks 1 and 2, task 1 having been deleted.
C9_Witness ==
    /\ last.ran /\ last.argv = <<"add", "b">> /\ last.exit = 0
    /\ Len(Stored) = 2
    /\ Stored[1].ID = 2
    /\ Stored[2] = Task(3, "b", "todo", 3, 3)

---------------------------------------------------------------------------
(* Properties of ConcSpec *)

\* The place in trace of an access of a process.
Pos(p, access) == CHOOSE i \in 1..Len(trace) : trace[i] = <<p, access>>

\* Both invocations have exited, each having saved and reported success.
BothSaved ==
    \A p \in Procs : proc[p].pc = "done" /\ proc[p].res.save

\* Both loaded the file before either began to save.
LoadedBeforeSaves ==
    \A p, q \in Procs : Pos(p, "load") < Pos(q, "open")

\* The invocation whose write came last.
LastWriter ==
    CHOOSE p \in Procs : \A q \in Procs : Pos(q, "write") <= Pos(p, "write")

\* One invocation's save was over before the other's began.
SavesApart ==
    \E p, q \in Procs : Pos(p, "write") < Pos(q, "open")

\* The file holds what the last writer saved; of two adds, both printed the
\* same id and one task more than was loaded is stored, the last writer's.
LastWriterWon ==
    /\ ~loadTasks(file).err
    /\ Stored = proc[LastWriter].res.tasks
    /\ (\A p \in Procs : proc[p].argv[1] = "add")
           => /\ proc[1].res.out.id = proc[2].res.out.id
              /\ Len(Stored) = Len(proc[1].loaded) + 1
              /\ Stored[Len(Stored)].Description = proc[LastWriter].argv[2]

\* C10, as claimed: when both invocations load before either saves, the
\* file ends up holding exactly the collection of the one that saved last.
C10_LastWriterWins ==
    (BothSaved /\ LoadedBeforeSaves) => LastWriterWon

\* C10, amended: the same, provided the two saves do not overlap.
C10_LastWriterWinsWhenSavesApart ==
    (BothSaved /\ LoadedBeforeSaves /\ SavesApart) => LastWriterWon

\* "add a" and "add b" both loaded two tasks; process 2 saved after
\* process 1 had saved, and only "b" was added.
C10_Witness ==
    /\ BothSaved /\ LoadedBeforeSaves /\ SavesApart
    /\ proc[1].argv = <<"add", "a">>
    /\ proc[2].argv = <<"add", "b">>
    /\ LastWriter = 2
    /\ proc[1].res.out.id = 3
    /\ Len(Stored) = 3
    /\ Stored[3].Description = "b"

====
